---- MODULE Spec2Model ----
(***************************************************************************)
(* Model of the go-spacemesh API gateway:                                  *)
(*   - api/config/config.go          Config, DefaultConfig,                *)
(*                                   Config.ParseServicesList              *)
(*   - api/grpcserver/node_service.go  SmesherService handlers             *)
(*     (CreatePostData, StopPostDataCreationSession, PostStatus,           *)
(*      PostDataCreationProgressStream, statusToPbStatus)                  *)
(* The post backend behind api.PostAPI (package activation) is modelled    *)
(* from its documented contract, by the definitions named Post...          *)
(***************************************************************************)
EXTENDS Integers, Sequences, FiniteSets, TLC

(***************************************************************************)
(* Bounds of the model.                                                    *)
(***************************************************************************)
\* longest requested service list
MaxLen == 2
\* concurrent PostDataCreationProgressStream calls
NSubs == 3
\* progress events the producer emits in all
MaxEvents == 2
\* capacity of the progress channel
ChanCap == 1
\* post data creation sessions started in all
MaxJobs == 2
\* post compute providers the backend lists
MaxProviders == 2

(***************************************************************************)
(* api/config/config.go                                                    *)
(***************************************************************************)
defaultGRPCServerPort == 9091
defaultNewGRPCServerPort == 9092
defaultJSONServerPort == 9090
defaultNewJSONServerPort == 9093

\* the names a configuration may request: the two the switch knows and one
\* it does not
RequestedNames == {"mesh", "node", "bogus"}

\* the names the switch of ParseServicesList recognizes
KnownServices == {"mesh", "node"}

ServiceLists == UNION {[1..n -> RequestedNames] : n \in 0..MaxLen}

\* the nil error
NoError == <<>>

ErrUnrecognized(svc) == <<"unrecognized GRPC service requested: ", svc>>

ErrMissingDependency ==
    <<"must enable at least one GRPC service along with JSON gateway service">>

DefaultConfig ==
    [StartGrpcServer    |-> FALSE,
     StartGrpcServices  |-> <<>>,
     GrpcServerPort     |-> defaultGRPCServerPort,
     NewGrpcServerPort  |-> defaultNewGRPCServerPort,
     StartJSONServer    |-> FALSE,
     StartNewJSONServer |-> FALSE,
     JSONServerPort     |-> defaultJSONServerPort,
     NewJSONServerPort  |-> defaultNewJSONServerPort,
     StartNodeService   |-> FALSE,
     StartMeshService   |-> FALSE]

\* the for/switch of ParseServicesList from index i on: the receiver as the
\* loop leaves it, and the error of the early return (NoError if none)
RECURSIVE ParseLoop(_, _)
ParseLoop(s, i) ==
    IF i > Len(s.StartGrpcServices)
    THEN [cfg |-> s, err |-> NoError]
    ELSE LET svc == s.StartGrpcServices[i] IN
         CASE svc = "mesh" ->
                ParseLoop([s EXCEPT !.StartMeshService = TRUE], i + 1)
           [] svc = "node" ->
                ParseLoop([s EXCEPT !.StartNodeService = TRUE], i + 1)
           [] OTHER ->
                [cfg |-> s, err |-> ErrUnrecognized(svc)]

\* a ParseServicesList that leaves out the gateway dependency check
ParseServicesListNoDependencyCheck(s) == ParseLoop(s, 1)

\* Config.ParseServicesList: the receiver after the call and the returned error
ParseServicesList(s) ==
    LET r == ParseLoop(s, 1) IN
    IF r.err # NoError THEN r
    ELSE IF r.cfg.StartNewJSONServer /\ ~r.cfg.StartNodeService
         THEN [cfg |-> r.cfg, err |-> ErrMissingDependency]
         ELSE r

(***************************************************************************)
(* The post backend behind api.PostAPI (package activation), modelled from *)
(* its contract: one job at a time, the last options retained, one         *)
(* closable progress event source per session.                             *)
(***************************************************************************)
\* a nil pointer
Nil == [nil |-> TRUE]

DataDirs == {"dirA", "dirB"}

ErrAlreadyRunning == <<"AlreadyRunning">>

ErrNotRunning == <<"NotRunning">>

\* a progress channel as make() returns it
NewChan == [buf |-> <<>>, closed |-> FALSE, emitted |-> <<>>]

\* jobs[k] is the state of the k-th session's job, chans[k] its progress
\* channel; deleted holds the data locations whose files were removed
InitPost ==
    [jobs |-> <<>>, lastOptions |-> Nil, chans |-> <<>>, nEmitted |-> 0, deleted |-> {}]

JobState(p) == IF Len(p.jobs) = 0 THEN "Idle" ELSE p.jobs[Len(p.jobs)]

RunningJobs(p) == {k \in DOMAIN p.jobs : p.jobs[k] = "Running"}

\* PostAPI.PostStatus: the *activation.PostStatus of the moment
PostStatusOf(p) ==
    [InitInProgress |-> JobState(p) = "Running",
     BytesWritten   |-> p.nEmitted,
     ErrorType      |-> IF JobState(p) = "Failed" THEN 1 ELSE 0,
     ErrorMessage   |-> IF JobState(p) = "Failed" THEN "init failed" ELSE "",
     LastOptions    |-> p.lastOptions]

\* PostAPI.CreatePostData(options)
PostCreatePostData(p, opts) ==
    IF JobState(p) = "Running"
    THEN [post |-> p, err |-> ErrAlreadyRunning]
    ELSE [post |-> [p EXCEPT !.jobs = Append(@, "Running"),
                             !.lastOptions = opts,
                             !.chans = Append(@, NewChan),
                             !.deleted = @ \ {opts.DataDir}],
          err |-> NoError]

\* the channel of the current session, closed
CloseChan(p) == [p EXCEPT !.chans[Len(p.jobs)].closed = TRUE]

\* PostAPI.StopPostDataCreationSession(deleteFiles); removed is the set of
\* data locations the call deleted
PostStopPostDataCreationSession(p, deleteFiles) ==
    IF JobState(p) = "Idle"
    THEN [post |-> p, err |-> ErrNotRunning, removed |-> {}]
    ELSE LET stopped == [CloseChan(p) EXCEPT
                            !.jobs[Len(p.jobs)] = IF @ = "Running" THEN "Stopped" ELSE @]
             gone == IF deleteFiles THEN {p.lastOptions.DataDir} ELSE {}
         IN [post |-> [stopped EXCEPT !.deleted = @ \cup gone],
             err |-> NoError,
             removed |-> gone]

\* the producer puts the next status on the current session's channel
PostEmit(p) ==
    LET n == p.nEmitted + 1 IN
    [p EXCEPT !.nEmitted = n,
              !.chans[Len(p.jobs)] =
                  [@ EXCEPT !.buf = Append(@, [PostStatusOf(p) EXCEPT !.BytesWritten = n]),
                            !.emitted = Append(@, n)]]

\* the running job reaches a terminal state of its own
PostFinish(p, how) == [CloseChan(p) EXCEPT !.jobs[Len(p.jobs)] = how]

(***************************************************************************)
(* api/grpcserver/node_service.go: SmesherService                          *)
(***************************************************************************)
\* code.Code_OK
CodeOK == 0

OkStatus == [Status |-> [Code |-> CodeOK]]

\* the error stream.Send returns to a handler whose client is gone
ErrSend == <<"transport is closing">>

\* the pb.PostData a CreatePostDataRequest may carry
PostDataValues ==
    [Path : DataDirs, DataSize : {1}, Append : {FALSE}, Throttle : {FALSE}, ProviderId : {0}]

\* the CreatePostDataRequests a client may send: Data is optional on the wire
CreatePostDataRequests == [Data : PostDataValues \cup {Nil}]

StopRequests == [DeleteFiles : BOOLEAN]

\* statusToPbStatus; uint32(ComputeProviderId) keeps every value a request
\* can have put there (ProviderId is a uint32 on the wire)
statusToPbStatus(status) ==
    [InitInProgress |-> status.InitInProgress,
     BytesWritten   |-> status.BytesWritten,
     ErrorType      |-> status.ErrorType,
     ErrorMessage   |-> status.ErrorMessage,
     PostData       |-> IF status.LastOptions # Nil
                        THEN [Path       |-> status.LastOptions.DataDir,
                              DataSize   |-> status.LastOptions.DataSize,
                              Append     |-> status.LastOptions.Append,
                              Throttle   |-> status.LastOptions.Throttle,
                              ProviderId |-> status.LastOptions.ComputeProviderId]
                        ELSE Nil]

\* the &activation.PostOptions{...} literal of CreatePostData
PostOptionsOf(data) ==
    [DataDir           |-> data.Path,
     DataSize          |-> data.DataSize,
     Append            |-> data.Append,
     Throttle          |-> data.Throttle,
     ComputeProviderId |-> data.ProviderId]

(***************************************************************************)
(* gRPC status errors.  An error is a tuple: <<>> is nil, a one-element    *)
(* tuple is a plain Go error carrying only its message (no status code),   *)
(* and status.Error(code, msg) is the three-element tuple below.           *)
(***************************************************************************)
StatusError(code, msg) == <<"rpc error", code, msg>>

\* status.FromError(err) finds a status in err
IsStatusError(err) == Len(err) = 3 /\ err[1] = "rpc error"

\* err.Error() of a plain error
ErrorText(err) == err[1]

(***************************************************************************)
(* The smeshing subsystem behind api.SmeshingAPI (package activation):     *)
(* whether it smeshes and the coinbase (reward address).  StartSmeshing    *)
(* fails when smeshing has started already, StopSmeshing when it has not;  *)
(* both failures are plain errors.                                         *)
(***************************************************************************)
\* types.AddressLength, scaled down
AddressLength == 2

\* the Address bytes a request carries: shorter than, as long as and longer
\* than an address
AddressBytes == {<<7>>, <<7, 8>>, <<9, 7, 8>>}

RECURSIVE Zeros(_)
Zeros(n) == IF n = 0 THEN <<>> ELSE <<0>> \o Zeros(n - 1)

\* types.BytesToAddress: bytes longer than an address are cropped from the
\* left, shorter ones are padded with zeros on the left
BytesToAddress(b) ==
    IF Len(b) > AddressLength
    THEN SubSeq(b, Len(b) - AddressLength + 1, Len(b))
    ELSE Zeros(AddressLength - Len(b)) \o b

ErrAlreadyStarted == <<"already started">>

ErrNotStarted == <<"not started">>

InitSmesh == [smeshing |-> FALSE, coinbase |-> Zeros(AddressLength)]

SmeshStartSmeshing(s, addr) ==
    IF s.smeshing
    THEN [smesh |-> s, err |-> ErrAlreadyStarted]
    ELSE [smesh |-> [smeshing |-> TRUE, coinbase |-> addr], err |-> NoError]

SmeshStopSmeshing(s) ==
    IF s.smeshing
    THEN [smesh |-> [s EXCEPT !.smeshing = FALSE], err |-> NoError]
    ELSE [smesh |-> s, err |-> ErrNotStarted]

SmeshSetCoinbase(s, addr) == [s EXCEPT !.coinbase = addr]

\* the requests of the smesher and node services
StartSmeshingRequests == [Coinbase : {Nil} \cup [Address : AddressBytes]]

SetCoinbaseRequests == [Id : {Nil} \cup [Address : AddressBytes]]

EchoRequests == [Msg : {Nil} \cup [Value : {"ping", ""}]]

SetMinGasRequests == [Mingas : {Nil} \cup [Value : {0, 5}]]

(***************************************************************************)
(* The compute providers the post backend lists.  The provider at place k  *)
(* of the enumeration has id k - 1; its Benchmark gives a hash rate or a   *)
(* plain error.                                                            *)
(***************************************************************************)
ErrBenchmark == <<"benchmark failed">>

ProviderAt(k, ok) ==
    [Id         |-> k - 1,
     Model      |-> IF k = 1 THEN "cpu" ELSE "gpu",
     ComputeAPI |-> k % 4,
     Benchmark  |-> IF ok THEN [hs |-> 10 * k, err |-> NoError]
                          ELSE [hs |-> 0, err |-> ErrBenchmark]]

ProviderLists ==
    UNION {{[k \in 1..n |-> ProviderAt(k, oks[k])] : oks \in [1..n -> BOOLEAN]} :
           n \in 0..MaxProviders}

(***************************************************************************)
(* What the subsystems behind NodeService report: the peer count, whether  *)
(* the node is synced, the latest layer seen, the latest layer in state    *)
(* (verified) and the clock's current layer.                               *)
(***************************************************************************)
NodeStates ==
    [peers : {3, 4}, synced : BOOLEAN, latest : {100, 101}, verified : {98, 99},
     current : {101, 102}]

InitNode ==
    [peers |-> 3, synced |-> TRUE, latest |-> 100, verified |-> 98, current |-> 101]

NodeFields == {"peers", "synced", "latest", "verified", "current"}

\* no Status call made yet
NoStatusCall ==
    [pc |-> "idle", resp |-> Nil, seen |-> [f \in NodeFields |-> {}], touched |-> FALSE]

VARIABLES
    cfg,        \* the Config
    cfgPre,     \* the Config as it was when ParseServicesList was last called
    cfgErr,     \* the error ParseServicesList last returned (NoError after a load)
    cfgParsed,  \* TRUE right after a ParseServicesList call, until the next load
    post,       \* the post backend
    subs,       \* the PostDataCreationProgressStream calls, by subscriber
    lastCall,   \* the unary call served last: request, what reached the backend, outcome
    crashed,    \* TRUE once a handler has panicked: the process is gone
    smesh,      \* the smeshing subsystem behind api.SmeshingAPI
    node,       \* what the subsystems behind NodeService report at the moment
    statusCall  \* the NodeService.Status call in progress or served last

cfgVars == <<cfg, cfgPre, cfgErr, cfgParsed>>

svcVars == <<post, subs, lastCall, crashed>>

apiVars == <<smesh, node, statusCall>>

vars == <<cfg, cfgPre, cfgErr, cfgParsed, post, subs, lastCall, crashed, smesh, node,
          statusCall>>

SubIds == 1..NSubs

\* a stream call not made yet
InitSub ==
    [pc |-> "idle", sess |-> 0, from |-> 0, till |-> 0, cur |-> Nil, sent |-> <<>>,
     gone |-> FALSE, err |-> NoError]

NoCall ==
    [op |-> "none", in |-> Nil, passed |-> Nil, preState |-> "Idle", preOptions |-> Nil,
     postState |-> "Idle", postOptions |-> Nil, unchanged |-> TRUE, removed |-> {},
     resp |-> Nil,
     err |-> NoError, panicked |-> FALSE]

Init ==
    /\ cfg = DefaultConfig
    /\ cfgPre = DefaultConfig
    /\ cfgErr = NoError
    /\ cfgParsed = FALSE
    /\ post = InitPost
    /\ subs = [i \in SubIds |-> InitSub]
    /\ lastCall = NoCall
    /\ crashed = FALSE
    /\ smesh = InitSmesh
    /\ node = InitNode
    /\ statusCall = NoStatusCall

\* the configuration loader fills the fields that carry a mapstructure tag;
\* StartNodeService and StartMeshService have none
LoadConfig ==
    /\ \E list \in ServiceLists, grpc \in BOOLEAN, json \in BOOLEAN, newjson \in BOOLEAN :
        cfg' = [cfg EXCEPT !.StartGrpcServices = list,
                           !.StartGrpcServer = grpc,
                           !.StartJSONServer = json,
                           !.StartNewJSONServer = newjson]
    /\ cfgPre' = cfg'
    /\ cfgErr' = NoError
    /\ cfgParsed' = FALSE
    /\ UNCHANGED <<svcVars, apiVars>>

CallParseServicesList ==
    /\ LET r == ParseServicesList(cfg) IN
        /\ cfg' = r.cfg
        /\ cfgErr' = r.err
    /\ cfgPre' = cfg
    /\ cfgParsed' = TRUE
    /\ UNCHANGED <<svcVars, apiVars>>

ConfigNext == LoadConfig \/ CallParseServicesList

ConfigSpec == Init /\ [][ConfigNext]_vars

\* what lastCall keeps of a unary call: p the backend before it, q after it
Served(op, in, passed, p, q, removed, resp, err, panicked) ==
    [op |-> op, in |-> in, passed |-> passed,
     preState |-> JobState(p), preOptions |-> p.lastOptions,
     postState |-> JobState(q), postOptions |-> q.lastOptions,
     unchanged |-> p = q, removed |-> removed, resp |-> resp, err |-> err,
     panicked |-> panicked]

\* a CreatePostData that answers OK whatever the backend returned
CreatePostDataDroppingError(in) ==
    /\ ~crashed
    /\ IF in.Data = Nil
       THEN /\ crashed' = TRUE
            /\ lastCall' = Served("CreatePostData", in, Nil, post, post, {}, Nil, NoError, TRUE)
            /\ post' = post
       ELSE LET opts == PostOptionsOf(in.Data)
                r == PostCreatePostData(post, opts)
            IN /\ r.err = NoError => Len(post.jobs) < MaxJobs
               /\ post' = r.post
               /\ lastCall' = Served("CreatePostData", in, opts, post, r.post, {},
                                     OkStatus, NoError, FALSE)
               /\ crashed' = crashed
    /\ UNCHANGED <<subs, cfgVars, apiVars>>

\* SmesherService.CreatePostData: in.Data is dereferenced unchecked, so a
\* request without Data panics before the backend is reached
CreatePostData(in) ==
    /\ ~crashed
    /\ IF in.Data = Nil
       THEN /\ crashed' = TRUE
            /\ lastCall' = Served("CreatePostData", in, Nil, post, post, {}, Nil, NoError, TRUE)
            /\ post' = post
       ELSE LET opts == PostOptionsOf(in.Data)
                r == PostCreatePostData(post, opts)
            IN /\ r.err = NoError => Len(post.jobs) < MaxJobs
               /\ post' = r.post
               /\ lastCall' = Served("CreatePostData", in, opts, post, r.post, {},
                                     IF r.err # NoError THEN Nil ELSE OkStatus,
                                     r.err, FALSE)
               /\ crashed' = crashed
    /\ UNCHANGED <<subs, cfgVars, apiVars>>

\* a StopPostDataCreationSession that never asks the backend to delete
StopPostDataCreationSessionKeepingFiles(in) ==
    /\ ~crashed
    /\ LET r == PostStopPostDataCreationSession(post, FALSE) IN
        /\ post' = r.post
        /\ lastCall' = Served("StopPostDataCreationSession", in, FALSE, post, r.post,
                              r.removed, IF r.err # NoError THEN Nil ELSE OkStatus,
                              r.err, FALSE)
    /\ UNCHANGED <<subs, crashed, cfgVars, apiVars>>

\* SmesherService.StopPostDataCreationSession
StopPostDataCreationSession(in) ==
    /\ ~crashed
    /\ LET r == PostStopPostDataCreationSession(post, in.DeleteFiles) IN
        /\ post' = r.post
        /\ lastCall' = Served("StopPostDataCreationSession", in, in.DeleteFiles, post,
                              r.post, r.removed,
                              IF r.err # NoError THEN Nil ELSE OkStatus, r.err, FALSE)
    /\ UNCHANGED <<subs, crashed, cfgVars, apiVars>>

\* SmesherService.PostStatus
PostStatus ==
    /\ ~crashed
    /\ lastCall' = Served("PostStatus", Nil, Nil, post, post, {},
                          [Status |-> statusToPbStatus(PostStatusOf(post))], NoError, FALSE)
    /\ UNCHANGED <<post, subs, crashed, cfgVars, apiVars>>

\* the producer emits a progress event; the send blocks while the channel is full
ProducerEmit ==
    /\ ~crashed
    /\ JobState(post) = "Running"
    /\ post.nEmitted < MaxEvents
    /\ Len(post.chans[Len(post.jobs)].buf) < ChanCap
    /\ post' = PostEmit(post)
    /\ UNCHANGED <<subs, lastCall, crashed, cfgVars, apiVars>>

\* the running job completes or fails; its event source closes
JobEnds ==
    /\ ~crashed
    /\ JobState(post) = "Running"
    /\ \E how \in {"Completed", "Failed"} : post' = PostFinish(post, how)
    /\ UNCHANGED <<subs, lastCall, crashed, cfgVars, apiVars>>

JobNext ==
    \/ \E in \in CreatePostDataRequests : CreatePostData(in)
    \/ \E in \in StopRequests : StopPostDataCreationSession(in)
    \/ PostStatus
    \/ ProducerEmit
    \/ JobEnds

JobSpec == Init /\ [][JobNext]_vars

(***************************************************************************)
(* SmesherService.PostDataCreationProgressStream, one call per subscriber: *)
(*   idle  the call has not been made                                      *)
(*   recv  in the range over the channel, waiting for a status             *)
(*   send  holding a status, in stream.Send                                *)
(*   done  returned, with err                                              *)
(* from and till are the numbers of events the producer had emitted when   *)
(* the call was made and when it returned.                                 *)
(***************************************************************************)
\* the call is made: s.post.PostDataCreationProgressStream() hands out the
\* current session's channel (and waits while no session has started)
StreamOpen(i) ==
    /\ ~crashed
    /\ subs[i].pc = "idle"
    /\ Len(post.jobs) >= 1
    /\ subs' = [subs EXCEPT ![i] = [@ EXCEPT !.pc = "recv",
                                             !.sess = Len(post.jobs),
                                             !.from = post.nEmitted]]
    /\ UNCHANGED <<post, lastCall, crashed, cfgVars, apiVars>>

\* the range receives the status at the head of the channel
StreamRecv(i) ==
    /\ ~crashed
    /\ subs[i].pc = "recv"
    /\ post.chans[subs[i].sess].buf # <<>>
    /\ subs' = [subs EXCEPT ![i] = [@ EXCEPT !.pc = "send",
                                             !.cur = Head(post.chans[subs[i].sess].buf)]]
    /\ post' = [post EXCEPT !.chans[subs[i].sess].buf = Tail(@)]
    /\ UNCHANGED <<lastCall, crashed, cfgVars, apiVars>>

\* the range ends: the channel is closed and drained; return nil
StreamEnd(i) ==
    /\ ~crashed
    /\ subs[i].pc = "recv"
    /\ post.chans[subs[i].sess].buf = <<>>
    /\ post.chans[subs[i].sess].closed
    /\ subs' = [subs EXCEPT ![i] = [@ EXCEPT !.pc = "done", !.err = NoError,
                                             !.till = post.nEmitted]]
    /\ UNCHANGED <<post, lastCall, crashed, cfgVars, apiVars>>

\* stream.Send returns: an error if the client is gone (return err), nil
\* otherwise (next iteration)
StreamSend(i) ==
    /\ ~crashed
    /\ subs[i].pc = "send"
    /\ subs' = [subs EXCEPT ![i] =
            IF @.gone
            THEN [@ EXCEPT !.pc = "done", !.cur = Nil, !.err = ErrSend,
                           !.till = post.nEmitted]
            ELSE [@ EXCEPT !.pc = "recv", !.cur = Nil,
                           !.sent = Append(@, statusToPbStatus(subs[i].cur))]]
    /\ UNCHANGED <<post, lastCall, crashed, cfgVars, apiVars>>

\* the client of an open stream closes its connection (or the server begins
\* to shut down and cancels the stream's context)
ClientGone(i) ==
    /\ ~crashed
    /\ subs[i].pc \in {"recv", "send"}
    /\ ~subs[i].gone
    /\ subs' = [subs EXCEPT ![i].gone = TRUE]
    /\ UNCHANGED <<post, lastCall, crashed, cfgVars, apiVars>>

\* the requests that start and stop the session the subscribers follow
StreamStartRequest ==
    [Data |-> [Path |-> "dirA", DataSize |-> 1, Append |-> FALSE, Throttle |-> FALSE,
               ProviderId |-> 0]]

StreamNext ==
    \/ post.jobs = <<>> /\ CreatePostData(StreamStartRequest)
    \/ StopPostDataCreationSession([DeleteFiles |-> FALSE])
    \/ ProducerEmit
    \/ JobEnds
    \/ \E i \in SubIds : StreamOpen(i)
    \/ \E i \in SubIds : StreamRecv(i)
    \/ \E i \in SubIds : StreamEnd(i)
    \/ \E i \in SubIds : StreamSend(i)
    \/ \E i \in SubIds : ClientGone(i)

StreamSpec == Init /\ [][StreamNext]_vars

\* the subscriber whose client reads slowly: its Send may stay pending
SlowSub == CHOOSE i \in SubIds : \A k \in SubIds : i <= k

\* Every handler is a goroutine of its own and runs when it can: a receive
\* from a non-empty or closed channel completes, and so does a Send to a
\* client that is gone (it fails) or that reads.  Nothing obliges the
\* producer to emit, the job to end, or a client to call or to leave.
StreamFairness ==
    \A i \in SubIds :
        /\ WF_vars(StreamRecv(i))
        /\ WF_vars(StreamEnd(i))
        /\ WF_vars(StreamSend(i) /\ (subs[i].gone \/ i # SlowSub))

FairStreamSpec == Init /\ [][StreamNext]_vars /\ StreamFairness

\* as FairStreamSpec, with a producer that emits whenever the channel has room
FairProducerSpec ==
    Init /\ [][StreamNext]_vars /\ StreamFairness /\ WF_vars(ProducerEmit)

(***************************************************************************)
(* The unary calls of SmesherService on the smeshing subsystem, and        *)
(* NodeService.Echo.  Each handler is an operator from the subsystem state *)
(* and the request to the subsystem state it leaves, the subsystem calls   *)
(* it made, and the response and error it returns.                         *)
(***************************************************************************)
Answered(op, in, s, r) ==
    [op |-> op, in |-> in, invoked |-> r.invoked, before |-> s, after |-> r.smesh,
     resp |-> r.resp, err |-> r.err, panicked |-> FALSE]

EchoOf(in) ==
    IF in.Msg # Nil
    THEN [resp |-> [Msg |-> [Value |-> in.Msg.Value]], err |-> NoError]
    ELSE [resp |-> Nil, err |-> StatusError("InvalidArgument", "Must include 'Msg'")]

\* NodeService.Echo
Echo(in) ==
    /\ ~crashed
    /\ lastCall' = Answered("Echo", in, smesh,
                            [smesh |-> smesh, invoked |-> <<>>, resp |-> EchoOf(in).resp,
                             err |-> EchoOf(in).err])
    /\ UNCHANGED <<post, subs, crashed, cfgVars, apiVars>>

\* StartSmeshing calling the subsystem whatever the request holds
StartSmeshingUnvalidated(s, in) ==
    LET addr == IF in.Coinbase = Nil THEN Zeros(AddressLength)
                ELSE BytesToAddress(in.Coinbase.Address)
        r    == SmeshStartSmeshing(s, addr)
    IN  [smesh |-> r.smesh, invoked |-> <<[fn |-> "StartSmeshing", addr |-> addr]>>,
         resp |-> IF in.Coinbase = Nil \/ r.err # NoError THEN Nil
                  ELSE [Status |-> OkStatus],
         err |-> IF in.Coinbase = Nil
                 THEN StatusError("InvalidArgument", "'Coinbase' must be provided")
                 ELSE IF r.err # NoError THEN StatusError("Internal", ErrorText(r.err))
                 ELSE NoError]

StartSmeshingOf(s, in) ==
    IF in.Coinbase = Nil
    THEN [smesh |-> s, invoked |-> <<>>, resp |-> Nil,
          err |-> StatusError("InvalidArgument", "'Coinbase' must be provided")]
    ELSE LET addr == BytesToAddress(in.Coinbase.Address)
             r    == SmeshStartSmeshing(s, addr)
         IN  IF r.err # NoError
             THEN [smesh |-> r.smesh,
                   invoked |-> <<[fn |-> "StartSmeshing", addr |-> addr]>>,
                   resp |-> Nil, err |-> StatusError("Internal", ErrorText(r.err))]
             ELSE [smesh |-> r.smesh,
                   invoked |-> <<[fn |-> "StartSmeshing", addr |-> addr]>>,
                   resp |-> [Status |-> OkStatus], err |-> NoError]

\* SmesherService.StartSmeshing
StartSmeshing(in) ==
    /\ ~crashed
    /\ smesh' = StartSmeshingOf(smesh, in).smesh
    /\ lastCall' = Answered("StartSmeshing", in, smesh, StartSmeshingOf(smesh, in))
    /\ UNCHANGED <<post, subs, crashed, cfgVars, node, statusCall>>

StopSmeshingOf(s) ==
    LET r == SmeshStopSmeshing(s)
    IN  IF r.err # NoError
        THEN [smesh |-> r.smesh, invoked |-> <<[fn |-> "StopSmeshing"]>>,
              resp |-> Nil, err |-> r.err]
        ELSE [smesh |-> r.smesh, invoked |-> <<[fn |-> "StopSmeshing"]>>,
              resp |-> [Status |-> OkStatus], err |-> NoError]

\* SmesherService.StopSmeshing
StopSmeshing ==
    /\ ~crashed
    /\ smesh' = StopSmeshingOf(smesh).smesh
    /\ lastCall' = Answered("StopSmeshing", Nil, smesh, StopSmeshingOf(smesh))
    /\ UNCHANGED <<post, subs, crashed, cfgVars, node, statusCall>>

SetCoinbaseOf(s, in) ==
    IF in.Id = Nil
    THEN [smesh |-> s, invoked |-> <<>>, resp |-> Nil,
          err |-> StatusError("InvalidArgument", "'Id' must be provided")]
    ELSE LET addr == BytesToAddress(in.Id.Address)
         IN  [smesh |-> SmeshSetCoinbase(s, addr),
              invoked |-> <<[fn |-> "SetCoinbase", addr |-> addr]>>,
              resp |-> [Status |-> OkStatus], err |-> NoError]

\* SmesherService.SetCoinbase
SetCoinbase(in) ==
    /\ ~crashed
    /\ smesh' = SetCoinbaseOf(smesh, in).smesh
    /\ lastCall' = Answered("SetCoinbase", in, smesh, SetCoinbaseOf(smesh, in))
    /\ UNCHANGED <<post, subs, crashed, cfgVars, node, statusCall>>

ErrNotImplemented == StatusError("Unimplemented", "this endpoint is not implemented")

\* SetMinGas answering with success
SetMinGasAccepting(s, in) ==
    [smesh |-> s, invoked |-> <<>>, resp |-> [Status |-> OkStatus], err |-> NoError]

MinGasOf(s) == [smesh |-> s, invoked |-> <<>>, resp |-> Nil, err |-> ErrNotImplemented]

SetMinGasOf(s, in) ==
    [smesh |-> s, invoked |-> <<>>, resp |-> Nil, err |-> ErrNotImplemented]

\* SmesherService.MinGas
MinGas ==
    /\ ~crashed
    /\ smesh' = MinGasOf(smesh).smesh
    /\ lastCall' = Answered("MinGas", Nil, smesh, MinGasOf(smesh))
    /\ UNCHANGED <<post, subs, crashed, cfgVars, node, statusCall>>

\* SmesherService.SetMinGas
SetMinGas(in) ==
    /\ ~crashed
    /\ smesh' = SetMinGasOf(smesh, in).smesh
    /\ lastCall' = Answered("SetMinGas", in, smesh, SetMinGasOf(smesh, in))
    /\ UNCHANGED <<post, subs, crashed, cfgVars, node, statusCall>>

\* the entry PostComputeProviders makes of a provider and its hash rate;
\* uint32(p.Id) and uint64(hs) keep every id and rate the backend gives
ProviderEntry(p, hs) ==
    [Id |-> p.Id, Model |-> p.Model, ComputeApi |-> p.ComputeAPI, Performance |-> hs]

\* the loop of PostComputeProviders leaving a failed provider out
RECURSIVE BenchmarkLoopSkippingFailed(_, _, _)
BenchmarkLoopSkippingFailed(providers, i, res) ==
    IF i > Len(providers)
    THEN [resp |-> [PostComputeProvider |-> res], err |-> NoError]
    ELSE LET p == providers[i]
         IN  IF p.Benchmark.err # NoError
             THEN BenchmarkLoopSkippingFailed(providers, i + 1, res)
             ELSE BenchmarkLoopSkippingFailed(providers, i + 1,
                      Append(res, ProviderEntry(p, p.Benchmark.hs)))

\* the loop of PostComputeProviders from provider i on, res holding the
\* entries made so far
RECURSIVE BenchmarkLoop(_, _, _)
BenchmarkLoop(providers, i, res) ==
    IF i > Len(providers)
    THEN [resp |-> [PostComputeProvider |-> res], err |-> NoError]
    ELSE LET p == providers[i]
         IN  IF p.Benchmark.err # NoError
             THEN [resp |-> Nil, err |-> p.Benchmark.err]
             ELSE BenchmarkLoop(providers, i + 1,
                      Append(res, ProviderEntry(p, p.Benchmark.hs)))

\* SmesherService.PostComputeProviders; the backend lists providers
PostComputeProviders ==
    /\ ~crashed
    /\ \E providers \in ProviderLists :
        LET r == BenchmarkLoop(providers, 1, <<>>)
        IN  lastCall' = [op |-> "PostComputeProviders", in |-> Nil,
                         invoked |-> <<[fn |-> "PostComputeProviders"]>>,
                         providers |-> providers, before |-> smesh, after |-> smesh,
                         resp |-> r.resp, err |-> r.err, panicked |-> FALSE]
    /\ UNCHANGED <<post, subs, crashed, cfgVars, apiVars>>

SmesherNext ==
    \/ \E in \in EchoRequests : Echo(in)
    \/ \E in \in StartSmeshingRequests : StartSmeshing(in)
    \/ StopSmeshing
    \/ \E in \in SetCoinbaseRequests : SetCoinbase(in)
    \/ MinGas
    \/ \E in \in SetMinGasRequests : SetMinGas(in)
    \/ PostComputeProviders

SmesherSpec == Init /\ [][SmesherNext]_vars

(***************************************************************************)
(* NodeService.Status.  The handler asks the subsystems one after the      *)
(* other, in the order of the fields of the NodeStatus literal, and holds  *)
(* no lock over them: they may change between two reads.                   *)
(*   idle, done           no call in progress                              *)
(*   PeerCount .. LatestLayerInState    the read the call makes next       *)
(***************************************************************************)
StatusReads ==
    <<"PeerCount", "IsSynced", "LatestLayer", "GetCurrentLayer", "LatestLayerInState">>

NextRead(pc) ==
    LET k == CHOOSE i \in DOMAIN StatusReads : StatusReads[i] = pc
    IN  IF k = Len(StatusReads) THEN "done" ELSE StatusReads[k + 1]

\* the NodeStatus before a field is filled
EmptyNodeStatus ==
    [ConnectedPeers |-> 0, IsSynced |-> FALSE, SyncedLayer |-> 0, TopLayer |-> 0,
     VerifiedLayer |-> 0]

\* the reads of Status with the two of the mesh exchanged
StatusReadExchanged(pc, resp, n) ==
    [node |-> n,
     resp |-> CASE pc = "PeerCount"          -> [resp EXCEPT !.ConnectedPeers = n.peers]
                [] pc = "IsSynced"           -> [resp EXCEPT !.IsSynced = n.synced]
                [] pc = "LatestLayer"        -> [resp EXCEPT !.SyncedLayer = n.verified]
                [] pc = "GetCurrentLayer"    -> [resp EXCEPT !.TopLayer = n.current]
                [] pc = "LatestLayerInState" -> [resp EXCEPT !.VerifiedLayer = n.latest]]

\* one read of Status: the field it fills, and the subsystems as it leaves them
StatusRead(pc, resp, n) ==
    [node |-> n,
     resp |-> CASE pc = "PeerCount"          -> [resp EXCEPT !.ConnectedPeers = n.peers]
                [] pc = "IsSynced"           -> [resp EXCEPT !.IsSynced = n.synced]
                [] pc = "LatestLayer"        -> [resp EXCEPT !.SyncedLayer = n.latest]
                [] pc = "GetCurrentLayer"    -> [resp EXCEPT !.TopLayer = n.current]
                [] pc = "LatestLayerInState" -> [resp EXCEPT !.VerifiedLayer = n.verified]]

StatusInProgress == statusCall.pc \notin {"idle", "done"}

\* a client calls Status
StatusBegin ==
    /\ ~crashed
    /\ ~StatusInProgress
    /\ statusCall' = [pc |-> StatusReads[1], resp |-> EmptyNodeStatus,
                      seen |-> [f \in NodeFields |-> {node[f]}], touched |-> FALSE]
    /\ UNCHANGED <<svcVars, cfgVars, smesh, node>>

\* the call makes its next read; after the last one it returns the response
StatusStep ==
    /\ ~crashed
    /\ StatusInProgress
    /\ LET r == StatusRead(statusCall.pc, statusCall.resp, node)
       IN  /\ node' = r.node
           /\ statusCall' = [pc |-> NextRead(statusCall.pc), resp |-> r.resp,
                             seen |-> statusCall.seen,
                             touched |-> statusCall.touched \/ r.node # node]
    /\ UNCHANGED <<svcVars, cfgVars, smesh>>

\* a subsystem changes what it reports: a peer comes or goes, the sync
\* state flips, a layer arrives or is verified, the clock ticks
NodeChanges ==
    /\ ~crashed
    /\ \E f \in NodeFields :
        \E v \in {n[f] : n \in NodeStates} \ {node[f]} :
            /\ node' = [node EXCEPT ![f] = v]
            /\ statusCall' = IF StatusInProgress
                             THEN [statusCall EXCEPT !.seen[f] = @ \cup {v}]
                             ELSE statusCall
    /\ UNCHANGED <<svcVars, cfgVars, smesh>>

NodeNext ==
    \/ StatusBegin
    \/ StatusStep
    \/ NodeChanges

NodeSpec == Init /\ [][NodeNext]_vars

(***************************************************************************)
(* Claims about the service configuration (checked under ConfigSpec).      *)
(***************************************************************************)
\* the names requested in the call ParseServicesList last served
RequestedList == cfgPre.StartGrpcServices

UnknownPositions == {i \in DOMAIN RequestedList : RequestedList[i] \notin KnownServices}

FirstUnknown ==
    RequestedList[CHOOSE i \in UnknownPositions : \A j \in UnknownPositions : i <= j]

\* C1: a ParseServicesList call whose list holds an unrecognized name, at any
\* position, returns the error naming it and leaves StartNodeService and
\* StartMeshService as they were before the call (no partial application).
C1_UnknownNameAppliesNothing ==
    (cfgParsed /\ UnknownPositions # {}) =>
        /\ cfgErr = ErrUnrecognized(FirstUnknown)
        /\ cfg.StartNodeService = cfgPre.StartNodeService
        /\ cfg.StartMeshService = cfgPre.StartMeshService

\* C2: with the JSON gateway requested and only known names in the list,
\* ParseServicesList returns the missing-dependency error exactly when the
\* list requests no service at all.
C2_GatewayNeedsAnyService ==
    (cfgParsed /\ cfgPre.StartNewJSONServer /\ UnknownPositions = {}) =>
        (cfgErr = ErrMissingDependency <=> Len(RequestedList) = 0)

\* C3: in every Config for which ParseServicesList returned success, the
\* gateway flag StartNewJSONServer is true only if StartNodeService or
\* StartMeshService is true.
C3_DependencyInvariant ==
    (cfgParsed /\ cfgErr = NoError) =>
        (cfg.StartNewJSONServer => (cfg.StartNodeService \/ cfg.StartMeshService))

\* a successful resolution with the gateway requested
C3_Witness ==
    /\ cfgParsed
    /\ cfgErr = NoError
    /\ cfg.StartNewJSONServer
    /\ Len(RequestedList) > 0

\* the same requested list and transport flags, resolved on a Config that
\* no call has touched
ResolvedAfresh ==
    ParseServicesList([DefaultConfig EXCEPT
        !.StartGrpcServices = cfgPre.StartGrpcServices,
        !.StartGrpcServer = cfgPre.StartGrpcServer,
        !.StartJSONServer = cfgPre.StartJSONServer,
        !.StartNewJSONServer = cfgPre.StartNewJSONServer])

\* C4: the outcome of a ParseServicesList call (service flags and error) is
\* decided by the requested list and the transport flags alone: it is the
\* outcome the same input has on an untouched Config, whatever calls came
\* earlier on this one.
C4_ResolutionIsPure ==
    cfgParsed =>
        /\ cfgErr = ResolvedAfresh.err
        /\ cfg.StartNodeService = ResolvedAfresh.cfg.StartNodeService
        /\ cfg.StartMeshService = ResolvedAfresh.cfg.StartMeshService

(***************************************************************************)
(* Claims about the post data creation job (checked under JobSpec).        *)
(***************************************************************************)
\* C5: at most one job is Running in every reachable state, and a
\* CreatePostData served while a job is Running returns the AlreadyRunning
\* error and leaves the job's state and the last options as they were.
C5_OneJobAtATime ==
    /\ Cardinality(RunningJobs(post)) <= 1
    /\ (lastCall.op = "CreatePostData" /\ lastCall.preState = "Running") =>
        /\ ~lastCall.panicked
        /\ lastCall.err = ErrAlreadyRunning
        /\ lastCall.resp = Nil
        /\ lastCall.postState = "Running"
        /\ lastCall.postOptions = lastCall.preOptions

\* C10: StopPostDataCreationSession hands the backend the request's
\* DeleteFiles flag; served when no job has ever started it returns
\* NotRunning and changes nothing; served while a job is Running it succeeds,
\* the job is Stopped, and files are deleted exactly when DeleteFiles is set,
\* and then exactly at the last options' data location.
C10_StopFollowsStateMachine ==
    lastCall.op = "StopPostDataCreationSession" =>
        /\ lastCall.passed = lastCall.in.DeleteFiles
        /\ lastCall.preState = "Idle" =>
            /\ lastCall.err = ErrNotRunning
            /\ lastCall.resp = Nil
            /\ lastCall.unchanged
            /\ lastCall.removed = {}
        /\ lastCall.preState = "Running" =>
            /\ lastCall.err = NoError
            /\ lastCall.resp = OkStatus
            /\ lastCall.postState = "Stopped"
            /\ lastCall.removed = IF lastCall.in.DeleteFiles
                                  THEN {lastCall.preOptions.DataDir}
                                  ELSE {}

\* a running job stopped with DeleteFiles set, its data location deleted
C10_Witness ==
    /\ lastCall.op = "StopPostDataCreationSession"
    /\ lastCall.preState = "Running"
    /\ lastCall.in.DeleteFiles
    /\ lastCall.postState = "Stopped"
    /\ lastCall.removed = {"dirB"}

(***************************************************************************)
(* Claims about the progress stream (checked under StreamSpec and its      *)
(* fair versions).                                                         *)
(***************************************************************************)
\* the BytesWritten of the events subscriber i was sent, in the order sent
SentNumbers(i) == [k \in DOMAIN subs[i].sent |-> subs[i].sent[k].BytesWritten]

WasSent(i, n) == \E k \in DOMAIN subs[i].sent : subs[i].sent[k].BytesWritten = n

\* the events emitted in the session subscriber i follows
EmittedFor(i) == post.chans[subs[i].sess].emitted

\* C6: a subscription that was open before the first event was emitted and
\* ran until the source closed has been sent exactly the emitted sequence
\* e1..ek, each once and in order, whatever other subscribers did.
C6_EverySubscriberGetsAll ==
    \A i \in SubIds :
        (subs[i].pc = "done" /\ subs[i].err = NoError /\ subs[i].from = 0) =>
            SentNumbers(i) = EmittedFor(i)

\* C7: once the client of a subscription is gone, its handler eventually
\* returns, also when the producer emits nothing more and does not close.
C7_GoneClientReleased ==
    \A i \in SubIds : subs[i].gone ~> (subs[i].pc = "done")

\* C8: when the Send of one subscription has failed, every other subscription
\* that was open then and ran until the source closed has been sent all the
\* events emitted after the failure.
C8_SendFailureIsolated ==
    \A i \in SubIds : \A j \in SubIds \ {i} :
        ( /\ subs[i].pc = "done" /\ subs[i].err = ErrSend
          /\ subs[j].pc = "done" /\ subs[j].err = NoError
          /\ subs[j].sess = subs[i].sess
          /\ subs[j].from <= subs[i].till ) =>
            \A k \in DOMAIN EmittedFor(j) :
                EmittedFor(j)[k] > subs[i].till => WasSent(j, EmittedFor(j)[k])

\* subscriber i is in its range loop
IsOpen(i) == subs[i].pc \in {"recv", "send"}

\* the only calls made so far are those of SlowSub and j, and the client of
\* SlowSub is still connected
OnlySlowAnd(j) ==
    /\ ~subs[SlowSub].gone
    /\ \A k \in SubIds \ {SlowSub, j} : subs[k].pc = "idle"

\* C9: while the slow subscriber SlowSub is open, the producer of a running
\* job always gets to emit its next event, and every event emitted while
\* another subscription is open beside it is eventually sent to that
\* subscription (unless its own client leaves).
C9_SlowSubscriberBlocksNobody ==
    /\ \A n \in 1..MaxEvents :
        (JobState(post) = "Running" /\ post.nEmitted = n - 1 /\ IsOpen(SlowSub))
            ~> (post.nEmitted >= n \/ JobState(post) # "Running")
    /\ \A n \in 1..MaxEvents : \A j \in SubIds \ {SlowSub} :
        (post.nEmitted >= n /\ subs[j].from < n /\ IsOpen(j) /\ IsOpen(SlowSub)
            /\ OnlySlowAnd(j))
            ~> (WasSent(j, n) \/ subs[j].gone \/ ~OnlySlowAnd(j))


(***************************************************************************)
(* Claims about the unary calls of the smesher and node services (checked  *)
(* under SmesherSpec).                                                     *)
(***************************************************************************)
FailedProviders(providers) ==
    {k \in DOMAIN providers : providers[k].Benchmark.err # NoError}

\* C11: PostComputeProviders is all-or-nothing.  Whatever providers the backend
\* lists and whichever of their benchmarks fail: when at least one benchmark
\* fails the call returns an error and no provider list, not a partial one;
\* when all succeed the response holds exactly one entry per provider, in the
\* order of the enumeration, each with that provider's id, model, compute API
\* class and benchmarked hash rate.
C11_ProvidersAllOrNothing ==
    lastCall.op = "PostComputeProviders" =>
        LET providers == lastCall.providers
        IN  IF FailedProviders(providers) # {}
            THEN lastCall.err # NoError /\ lastCall.resp = Nil
            ELSE /\ lastCall.err = NoError
                 /\ lastCall.resp # Nil
                 /\ Len(lastCall.resp.PostComputeProvider) = Len(providers)
                 /\ \A k \in DOMAIN providers :
                      LET e == lastCall.resp.PostComputeProvider[k]
                      IN  /\ e.Id = providers[k].Id
                          /\ e.Model = providers[k].Model
                          /\ e.ComputeApi = providers[k].ComputeAPI
                          /\ e.Performance = providers[k].Benchmark.hs

\* a call over two providers of which the first benchmarks and the second
\* fails, answered with the error and no list
C11_Witness ==
    /\ lastCall.op = "PostComputeProviders"
    /\ Len(lastCall.providers) = 2
    /\ FailedProviders(lastCall.providers) = {2}
    /\ lastCall.err = ErrBenchmark
    /\ lastCall.resp = Nil

\* addr is the address the request bytes b stand for: the bytes aligned to the
\* right of the address, zeros to their left
IsAddressOf(addr, b) ==
    /\ Len(addr) = AddressLength
    /\ \A k \in 1..AddressLength :
        addr[AddressLength - k + 1] = IF k <= Len(b) THEN b[Len(b) - k + 1] ELSE 0

IsInvalidArgument(err) == IsStatusError(err) /\ err[2] = "InvalidArgument"

\* the call was refused before anything reached the subsystem
RefusedUntouched ==
    /\ IsInvalidArgument(lastCall.err)
    /\ lastCall.resp = Nil
    /\ lastCall.invoked = <<>>
    /\ lastCall.after = lastCall.before

\* the call reached the subsystem operation fn once, with the request's address
InvokedOnceWith(fn, b) ==
    /\ Len(lastCall.invoked) = 1
    /\ lastCall.invoked[1].fn = fn
    /\ IsAddressOf(lastCall.invoked[1].addr, b)

\* C12: validation precedes effects.  A StartSmeshing request without Coinbase,
\* a SetCoinbase request without Id and an Echo request without Msg fail with
\* InvalidArgument and the subsystem operation is not invoked, so the smeshing
\* state and the reward address are what they were; with the field present
\* the subsystem operation is invoked exactly once, with the address of the
\* request (Echo answers with the message of the request).
C12_ValidationPrecedesEffects ==
    /\ lastCall.op = "StartSmeshing" =>
        IF lastCall.in.Coinbase = Nil
        THEN RefusedUntouched
        ELSE InvokedOnceWith("StartSmeshing", lastCall.in.Coinbase.Address)
    /\ lastCall.op = "SetCoinbase" =>
        IF lastCall.in.Id = Nil
        THEN RefusedUntouched
        ELSE /\ InvokedOnceWith("SetCoinbase", lastCall.in.Id.Address)
             /\ IsAddressOf(lastCall.after.coinbase, lastCall.in.Id.Address)
    /\ lastCall.op = "Echo" =>
        IF lastCall.in.Msg = Nil
        THEN RefusedUntouched
        ELSE /\ lastCall.err = NoError
             /\ lastCall.resp.Msg.Value = lastCall.in.Msg.Value

\* a StartSmeshing request without Coinbase refused while the node smeshes
\* for a reward address set earlier, both left as they were
C12_Witness ==
    /\ lastCall.op = "StartSmeshing"
    /\ lastCall.in.Coinbase = Nil
    /\ lastCall.before.smeshing
    /\ lastCall.before.coinbase # Zeros(AddressLength)
    /\ smesh = lastCall.before
    /\ IsInvalidArgument(lastCall.err)

\* the unary calls that reach a subsystem which can fail
SubsystemCalls ==
    {"StartSmeshing", "StopSmeshing", "PostStatus", "PostComputeProviders",
     "CreatePostData", "StopPostDataCreationSession"}

\* the call failed in the subsystem, not in the validation of the request
SubsystemFailed ==
    /\ lastCall.op \in SubsystemCalls
    /\ lastCall.err # NoError
    /\ lastCall.invoked # <<>>

\* C13: a subsystem failure without classification is wrapped as Internal.
\* When the subsystem call of StartSmeshing, StopSmeshing, PostStatus,
\* PostComputeProviders, CreatePostData or StopPostDataCreationSession fails
\* with a plain error, the error returned to the client is a status error of
\* kind Internal carrying the subsystem's message, there is no response, and
\* the error is never one without a status code.
C13_FailureWrappedAsInternal ==
    SubsystemFailed =>
        /\ IsStatusError(lastCall.err)
        /\ lastCall.err[2] = "Internal"
        /\ lastCall.resp = Nil

(***************************************************************************)
(* Claims about every unary call (checked under JobSpec, which makes the   *)
(* calls that take an optional sub-message the handler does not test).     *)
(***************************************************************************)
\* C14: no unary call crashes.  For every request shape, an absent optional
\* sub-message included, and every job state, the call ends with a response
\* or an error: no handler panics, the process never goes down.
C14_NoHandlerPanics == ~crashed /\ ~lastCall.panicked

(***************************************************************************)
(* Claims about NodeService.Status (checked under NodeSpec).               *)
(***************************************************************************)
\* the subsystem value each field of the response stands for
FieldOf ==
    [ConnectedPeers |-> "peers", IsSynced |-> "synced", SyncedLayer |-> "latest",
     VerifiedLayer |-> "verified", TopLayer |-> "current"]

\* C15: Status is a read-only aggregation without recombination.  A served
\* Status call has filled ConnectedPeers from the peer count, IsSynced from
\* the sync state, SyncedLayer from the latest layer seen, VerifiedLayer from
\* the latest verified layer and TopLayer from the clock's current layer, and
\* has changed no subsystem; when subsystems changed during the call, each
\* field is a value its subsystem held at some moment of the call (so when
\* none changed, it is the value the subsystem holds).
C15_StatusAggregatesReadOnly ==
    statusCall.pc = "done" =>
        /\ ~statusCall.touched
        /\ \A fld \in DOMAIN FieldOf :
            statusCall.resp[fld] \in statusCall.seen[FieldOf[fld]]

\* a Status call served while the latest layer moved from 100 to 101 during
\* the call and nothing else changed: a value of the call in SyncedLayer, the
\* only value held in each other field
C15_Witness ==
    /\ statusCall.pc = "done"
    /\ statusCall.seen.latest = {100, 101}
    /\ statusCall.resp.SyncedLayer = 101
    /\ \A f \in NodeFields \ {"latest"} : statusCall.seen[f] = {InitNode[f]}
    /\ statusCall.resp.ConnectedPeers = 3
    /\ statusCall.resp.IsSynced
    /\ statusCall.resp.VerifiedLayer = 98
    /\ statusCall.resp.TopLayer = 101

(***************************************************************************)
(* Claims about the calls the service does not implement (checked under    *)
(* SmesherSpec).                                                           *)
(***************************************************************************)
\* C16: MinGas and SetMinGas answer Unimplemented, for every request and in
\* every state: never a response or a success status, no subsystem operation
\* invoked, the subsystem state as it was.
C16_MinGasUnimplemented ==
    lastCall.op \in {"MinGas", "SetMinGas"} =>
        /\ IsStatusError(lastCall.err)
        /\ lastCall.err[2] = "Unimplemented"
        /\ lastCall.resp = Nil
        /\ lastCall.invoked = <<>>
        /\ lastCall.after = lastCall.before
        /\ smesh = lastCall.before

\* SetMinGas with a value, called while the node smeshes, answered
\* Unimplemented
C16_Witness ==
    /\ lastCall.op = "SetMinGas"
    /\ lastCall.in.Mingas # Nil
    /\ lastCall.before.smeshing
    /\ lastCall.err = ErrNotImplemented
    /\ smesh.smeshing

(***************************************************************************)
(* Claims about the end and the start of a subscription (checked under     *)
(* StreamSpec).                                                            *)
(***************************************************************************)
\* C17: a stream ends cleanly when the event source closes.  A handler that
\* has returned without error after the producer closed the source has sent
\* every event emitted between its opening and the close, in the order of
\* emission, and sends nothing after its return.
C17_ClosedSourceEndsStreams ==
    \A i \in SubIds :
        ( /\ subs[i].pc = "done"
          /\ subs[i].err = NoError
          /\ post.chans[subs[i].sess].closed ) =>
            /\ subs[i].cur = Nil
            /\ \A k \in DOMAIN EmittedFor(i) :
                EmittedFor(i)[k] > subs[i].from => WasSent(i, EmittedFor(i)[k])
            /\ \A k \in DOMAIN subs[i].sent : \A l \in DOMAIN subs[i].sent :
                k < l => SentNumbers(i)[k] < SentNumbers(i)[l]

\* C18: no replay.  A subscription opened after events e1..ej were emitted is
\* sent only events emitted after it was opened: none of e1..ej, whether or
\* not an earlier subscriber had consumed them.
C18_NoReplay ==
    \A i \in SubIds : \A k \in DOMAIN subs[i].sent :
        SentNumbers(i)[k] > subs[i].from

====
